---- MODULE Spec2Model ----
(***************************************************************************)
(* Model of the banking ledger of sistema_bancario_poo.py (revision 1) and *)
(* sistema_bancario_poo2.py (revision 2): the CPF validator, transactions, *)
(* history, Conta / ContaCorrente, Cliente, and the menu functions that    *)
(* drive them.                                                             *)
(*                                                                         *)
(* Amounts are Python floats in the source.  Integer-valued floats add and *)
(* subtract exactly, so finite amounts are modelled as integers; the one   *)
(* non-finite float that the guards of the source let through, NaN (which  *)
(* float() parses from the text "nan"), is modelled with the comparison    *)
(* and arithmetic rules of IEEE 754: every ordered comparison with NaN is  *)
(* false and every sum or difference with NaN is NaN.                      *)
(***************************************************************************)
EXTENDS Integers, Sequences, FiniteSets, TLC

VARIABLES
    rev,            \* which source file runs: 1 = sistema_bancario_poo.py, 2 = sistema_bancario_poo2.py
                    \* (0 where both run side by side, each on its own account)
    clientes,       \* main's list `clientes`: sequence of PessoaFisica
    contas,         \* main's list `contas`: sequence of ContaCorrente (a client's _contas holds indices into it)
    numero_conta,   \* main's counter `numero_conta`
    relogio,        \* datetime.datetime.now(), in ticks
    call,           \* the last call made and what it returned / printed
    aceitos,        \* per account: sums and counts of the deposit / withdraw calls that returned True
    cpf_in,         \* the argument of a validar_cpf call (validator specification)
    cpf_out,        \* what that call produced
    pc,             \* main's loop: "menu" (waiting for an option), "fim" (left by q), "erro" (left by an uncaught exception)
    exclusao,       \* whether a deposit / withdrawal runs to completion before another call starts
                    \* (TRUE for the single actor of main; the threads specification tries both)
    threads,        \* per thread calling into an account: where it stands in depositar / sacar, and its locals
    historicos      \* the Historico objects and, per account, the one its _historico refers to (objects
                    \* specification; elsewhere an account carries its own list and this stays empty)

vars == <<rev, clientes, contas, numero_conta, relogio, call, aceitos, cpf_in, cpf_out, pc,
          exclusao, threads, historicos>>

(***************************************************************************)
(* Floats                                                                  *)
(***************************************************************************)
\* The encoding of float("nan"); every finite amount of the model is far above it.
NaN == -1000000

IsNaN(x) == x = NaN

\* Python's x <= y, x > y, x >= y on floats: False as soon as one side is NaN.
FLe(x, y) == ~IsNaN(x) /\ ~IsNaN(y) /\ x <= y
FGt(x, y) == ~IsNaN(x) /\ ~IsNaN(y) /\ x > y
FGe(x, y) == ~IsNaN(x) /\ ~IsNaN(y) /\ x >= y

\* Python's x + y and x - y on floats.
FAdd(x, y) == IF IsNaN(x) \/ IsNaN(y) THEN NaN ELSE x + y
FSub(x, y) == IF IsNaN(x) \/ IsNaN(y) THEN NaN ELSE x - y

\* Python's bool as the text of its repr; None for a function that returns nothing.
PyBool(b) == IF b THEN "True" ELSE "False"

(***************************************************************************)
(* validar_cpf                                                             *)
(*                                                                         *)
(* A CPF text is a sequence of characters.  The characters of the model:   *)
(* the ASCII digits, the punctuation "." and "-", and "sup2", the          *)
(* superscript two U+00B2, for which str.isdigit is True and int() raises  *)
(* ValueError.                                                             *)
(***************************************************************************)
Digitos == {"0", "1", "2", "3", "4", "5", "6", "7", "8", "9"}
Pontuacao == {".", "-"}
Sup2 == "sup2"

\* str.isdigit on one character.
str_isdigit(ch) == ch \in Digitos \cup {Sup2}

\* Whether int(ch) returns (it raises ValueError otherwise).
int_ok(ch) == ch \in Digitos

\* int(ch) for an ASCII digit.
int(ch) ==
    CASE ch = "0" -> 0 [] ch = "1" -> 1 [] ch = "2" -> 2 [] ch = "3" -> 3
      [] ch = "4" -> 4 [] ch = "5" -> 5 [] ch = "6" -> 6 [] ch = "7" -> 7
      [] ch = "8" -> 8 [] ch = "9" -> 9

\* ''.join(filter(str.isdigit, cpf))
so_digitos(cpf) == SelectSeq(cpf, str_isdigit)

\* The loop `for i in range(n): soma += int(cpf[i]) * (peso - i)`, i from 0;
\* cpf is 1-indexed here, so cpf[i] of the source is d[i + 1].
RECURSIVE soma_pesos(_, _, _)
soma_pesos(d, n, peso) ==
    IF n = 0 THEN 0
    ELSE soma_pesos(d, n - 1, peso) + int(d[n]) * (peso - (n - 1))

\* `0 if resto < 2 else 11 - resto`
digito_verificador(soma) ==
    LET resto == soma % 11 IN IF resto < 2 THEN 0 ELSE 11 - resto

\* How a call ends: it returns a value, or it raises; NaoChamado before any call.
Retorna(b) == [exc |-> "none", ret |-> b]
Levanta(e) == [exc |-> e, ret |-> FALSE]
NaoChamado == [exc |-> "pendente", ret |-> FALSE]

validar_cpf(cpf) ==
    LET d == so_digitos(cpf) IN
    IF Len(d) # 11 THEN Retorna(FALSE)
    ELSE IF \A i \in 1..11 : d[i] = d[1] THEN Retorna(FALSE)
    ELSE IF \E i \in 1..9 : ~int_ok(d[i]) THEN Levanta("ValueError")
    ELSE IF ~int_ok(d[10]) THEN Levanta("ValueError")
    ELSE IF digito_verificador(soma_pesos(d, 9, 10)) # int(d[10]) THEN Retorna(FALSE)
    ELSE IF ~int_ok(d[11]) THEN Levanta("ValueError")
    ELSE IF digito_verificador(soma_pesos(d, 10, 11)) # int(d[11]) THEN Retorna(FALSE)
    ELSE Retorna(TRUE)

(***************************************************************************)
(* Transacao, Historico                                                    *)
(***************************************************************************)
\* datetime ticks per second: a Transacao's _data has sub-second resolution.
TicksPorSegundo == 2

\* Transacao.__init__ through Deposito / Saque: the value and the instant of construction.
Deposito(valor, agora) == [tipo |-> "Deposito", valor |-> valor, data |-> agora]
Saque(valor, agora) == [tipo |-> "Saque", valor |-> valor, data |-> agora]

\* An object that is no Transacao (a string, a number, None) handed to realizar_transacao.
NaoTransacao(valor, agora) == [tipo |-> "Outro", valor |-> valor, data |-> agora]

\* isinstance(transacao, Transacao)
isinstance_Transacao(t) == t.tipo \in {"Deposito", "Saque"}

\* data.strftime("%d-%m-%Y %H:%M:%S"): the instant cut to whole seconds.
strftime(data) == data \div TicksPorSegundo

\* Historico.adicionar_transacao with insert(0, ...) for append: the newest entry first.
Historico_adicionar_transacao_no_inicio(transacoes, t) ==
    << [tipo |-> t.tipo, valor |-> t.valor, data |-> strftime(t.data)] >> \o transacoes

\* Historico.adicionar_transacao: append {tipo, valor, data} to _transacoes.
Historico_adicionar_transacao(transacoes, t) ==
    Append(transacoes, [tipo |-> t.tipo, valor |-> t.valor, data |-> strftime(t.data)])

(***************************************************************************)
(* Conta, ContaCorrente                                                    *)
(*                                                                         *)
(* A method is an operator from the object and its arguments to the object *)
(* afterwards, the value returned and the error message printed:           *)
(*   InvalidAmount        "O valor informado é inválido"                   *)
(*   InsufficientFunds    "Você não tem saldo suficiente"                  *)
(*   LimitExceeded        "O valor do saque excede o limite"               *)
(*   WithdrawalCapReached "Número máximo de saques ... excedido"           *)
(***************************************************************************)
\* ContaCorrente.__init__ defaults.
LimitePadrao == 500
LimiteSaquesPadrao == 3

\* ContaCorrente.nova_conta(cliente, numero) -> ContaCorrente.__init__ -> Conta.__init__
ContaCorrente_nova_conta(cliente, numero) ==
    [ saldo |-> 0, numero |-> numero, agencia |-> "0001", cliente |-> cliente,
      historico |-> << >>,
      limite |-> LimitePadrao, limite_saques |-> LimiteSaquesPadrao, numero_saques |-> 0 ]

\* No Historico object tracked: every account carries its own list.
SemHistoricos == [de |-> << >>, transacoes |-> << >>]

Res(conta, ret, err) == [conta |-> conta, ret |-> ret, err |-> err]

\* Conta.depositar with `valor < 0` for its guard: a deposit of zero is accepted.
Conta_depositar_aceita_zero(r, conta, valor, agora) ==
    IF ~IsNaN(valor) /\ valor < 0 THEN Res(conta, FALSE, "InvalidAmount")
    ELSE
        LET c1 == [conta EXCEPT !.saldo = FAdd(@, valor)] IN
        IF r = 2
        THEN Res([c1 EXCEPT !.historico =
                      Historico_adicionar_transacao(@, Deposito(valor, agora))],
                 TRUE, "none")
        ELSE Res(c1, TRUE, "none")

\* Conta.depositar.  Revision 2 records the deposit itself, as a Deposito it builds
\* at that moment; revision 1 leaves the history to the caller.
Conta_depositar(r, conta, valor, agora) ==
    IF FLe(valor, 0) THEN Res(conta, FALSE, "InvalidAmount")
    ELSE
        LET c1 == [conta EXCEPT !.saldo = FAdd(@, valor)] IN
        IF r = 2
        THEN Res([c1 EXCEPT !.historico =
                      Historico_adicionar_transacao(@, Deposito(valor, agora))],
                 TRUE, "none")
        ELSE Res(c1, TRUE, "none")

\* Conta.sacar with `>=` for the funds test: the whole balance cannot be withdrawn.
Conta_sacar_saldo_estrito(r, conta, valor, agora) ==
    IF FLe(valor, 0) THEN Res(conta, FALSE, "InvalidAmount")
    ELSE IF FGe(valor, conta.saldo) THEN Res(conta, FALSE, "InsufficientFunds")
    ELSE
        LET c1 == [conta EXCEPT !.saldo = FSub(@, valor)] IN
        IF r = 2
        THEN Res([c1 EXCEPT !.historico =
                      Historico_adicionar_transacao(@, Saque(valor, agora))],
                 TRUE, "none")
        ELSE Res(c1, TRUE, "none")

\* Conta.sacar (the base class method).
Conta_sacar(r, conta, valor, agora) ==
    IF FLe(valor, 0) THEN Res(conta, FALSE, "InvalidAmount")
    ELSE IF FGt(valor, conta.saldo) THEN Res(conta, FALSE, "InsufficientFunds")
    ELSE
        LET c1 == [conta EXCEPT !.saldo = FSub(@, valor)] IN
        IF r = 2
        THEN Res([c1 EXCEPT !.historico =
                      Historico_adicionar_transacao(@, Saque(valor, agora))],
                 TRUE, "none")
        ELSE Res(c1, TRUE, "none")

\* ContaCorrente.sacar with `>` for the cap test: one withdrawal too many passes.
ContaCorrente_sacar_teto_frouxo(r, conta, valor, agora) ==
    LET excedeu_limite == FGt(valor, conta.limite)
        excedeu_saques == conta.numero_saques > conta.limite_saques
    IN
    IF excedeu_limite THEN Res(conta, FALSE, "LimitExceeded")
    ELSE IF excedeu_saques THEN Res(conta, FALSE, "WithdrawalCapReached")
    ELSE
        LET b == Conta_sacar(r, conta, valor, agora) IN
        IF b.ret
        THEN Res([b.conta EXCEPT !.numero_saques = @ + 1], TRUE, "none")
        ELSE Res(b.conta, FALSE, b.err)

\* ContaCorrente.sacar with `>=` for the limit test: the limit itself is refused.
ContaCorrente_sacar_limite_estrito(r, conta, valor, agora) ==
    LET excedeu_limite == FGe(valor, conta.limite)
        excedeu_saques == conta.numero_saques >= conta.limite_saques
    IN
    IF excedeu_limite THEN Res(conta, FALSE, "LimitExceeded")
    ELSE IF excedeu_saques THEN Res(conta, FALSE, "WithdrawalCapReached")
    ELSE
        LET b == Conta_sacar(r, conta, valor, agora) IN
        IF b.ret
        THEN Res([b.conta EXCEPT !.numero_saques = @ + 1], TRUE, "none")
        ELSE Res(b.conta, FALSE, b.err)

\* ContaCorrente.sacar with its two guards in the other order.
ContaCorrente_sacar_ordem_trocada(r, conta, valor, agora) ==
    LET excedeu_limite == FGt(valor, conta.limite)
        excedeu_saques == conta.numero_saques >= conta.limite_saques
    IN
    IF excedeu_saques THEN Res(conta, FALSE, "WithdrawalCapReached")
    ELSE IF excedeu_limite THEN Res(conta, FALSE, "LimitExceeded")
    ELSE
        LET b == Conta_sacar(r, conta, valor, agora) IN
        IF b.ret
        THEN Res([b.conta EXCEPT !.numero_saques = @ + 1], TRUE, "none")
        ELSE Res(b.conta, FALSE, b.err)

\* ContaCorrente.sacar counting the withdrawal before Conta.sacar decided it.
ContaCorrente_sacar_conta_tentativa(r, conta, valor, agora) ==
    LET excedeu_limite == FGt(valor, conta.limite)
        excedeu_saques == conta.numero_saques >= conta.limite_saques
    IN
    IF excedeu_limite THEN Res(conta, FALSE, "LimitExceeded")
    ELSE IF excedeu_saques THEN Res(conta, FALSE, "WithdrawalCapReached")
    ELSE
        LET b == Conta_sacar(r, conta, valor, agora) IN
        Res([b.conta EXCEPT !.numero_saques = @ + 1], b.ret, b.err)

\* ContaCorrente.sacar (the override; the same text in both revisions).
ContaCorrente_sacar(r, conta, valor, agora) ==
    LET excedeu_limite == FGt(valor, conta.limite)
        excedeu_saques == conta.numero_saques >= conta.limite_saques
    IN
    IF excedeu_limite THEN Res(conta, FALSE, "LimitExceeded")
    ELSE IF excedeu_saques THEN Res(conta, FALSE, "WithdrawalCapReached")
    ELSE
        LET b == Conta_sacar(r, conta, valor, agora) IN
        IF b.ret
        THEN Res([b.conta EXCEPT !.numero_saques = @ + 1], TRUE, "none")
        ELSE Res(b.conta, FALSE, b.err)

\* Transacao.registrar with revision 1's append outside the `if`: the transaction is
\* recorded whether or not the account accepted it.
Transacao_registrar_sempre_anota(r, t, conta, agora) ==
    LET a == IF t.tipo = "Deposito"
             THEN Conta_depositar(r, conta, t.valor, agora)
             ELSE ContaCorrente_sacar(r, conta, t.valor, agora)
    IN
    IF r = 2 THEN a
    ELSE Res([a.conta EXCEPT !.historico = Historico_adicionar_transacao(@, t)],
             a.ret, a.err)

\* Deposito.registrar / Saque.registrar, dispatched on the transaction's class.
\* Revision 1 appends the transaction itself once the account accepted it;
\* revision 2 only returns what the account returned.
Transacao_registrar(r, t, conta, agora) ==
    LET a == IF t.tipo = "Deposito"
             THEN Conta_depositar(r, conta, t.valor, agora)
             ELSE ContaCorrente_sacar(r, conta, t.valor, agora)
    IN
    IF r = 2 THEN a
    ELSE IF a.ret
         THEN Res([a.conta EXCEPT !.historico = Historico_adicionar_transacao(@, t)],
                  TRUE, "none")
         ELSE Res(a.conta, FALSE, a.err)

(***************************************************************************)
(* Cliente                                                                 *)
(***************************************************************************)
\* Cliente.realizar_transacao.  `ret` is the text of the value returned: revision 1
\* has no return statement (None in every case), revision 2 returns False for an
\* object that is no Transacao and registrar's result otherwise.  `aceito` is what
\* the account's own depositar / sacar returned (False when it was never called).
Cliente_realizar_transacao(r, conta, t, agora) ==
    IF ~isinstance_Transacao(t)
    THEN [conta |-> conta, ret |-> IF r = 2 THEN "False" ELSE "None",
          err |-> "InvalidTransaction", aceito |-> FALSE]
    ELSE
        LET g == Transacao_registrar(r, t, conta, agora) IN
        [conta |-> g.conta, ret |-> IF r = 2 THEN PyBool(g.ret) ELSE "None",
         err |-> g.err, aceito |-> g.ret]

\* PessoaFisica.__init__ (through Cliente.__init__): no account yet.
PessoaFisica(cpf) == [cpf |-> cpf, contas |-> << >>]

\* Cliente.adicionar_conta without its append: the client never learns of the account.
Cliente_adicionar_conta_esquece(cliente, conta) == cliente

\* Cliente.adicionar_conta
Cliente_adicionar_conta(cliente, conta) == [cliente EXCEPT !.contas = Append(@, conta)]

(***************************************************************************)
(* Bounds of the model                                                     *)
(***************************************************************************)
\* Deposit / withdraw calls accepted per account: the model makes every call that is
\* refused, and a call that is accepted only while fewer than MaxOps were.
MaxOps == 4

\* The amounts handed to depositar: NaN, a negative one, zero, the withdrawal limit,
\* one above it.
ValoresDeposito == {NaN, -5, 0, LimitePadrao, LimitePadrao + 1}

\* The amounts handed to sacar: a negative one, zero, one well within the limit (a
\* fifth of it), the limit itself, one just above the limit.
ValoresSaque == {-5, 0, LimitePadrao \div 5, LimitePadrao, LimitePadrao + 1}

(***************************************************************************)
(* The last call and the accepted-call accounts                            *)
(***************************************************************************)
\* A placeholder for "no account" in a call that touches none.
NenhumaConta == ContaCorrente_nova_conta(0, 0)

Chamada(op, i, tipo, valor, ret, err, aceito, antes) ==
    [ op |-> op, conta |-> i, tipo |-> tipo, valor |-> valor, ret |-> ret,
      err |-> err, aceito |-> aceito, antes |-> antes ]

NenhumaChamada == Chamada("nenhuma", 0, "Outro", 0, "None", "none", FALSE, NenhumaConta)

AceitosZero == [dep |-> 0, saq |-> 0, n |-> 0, nsaq |-> 0]

\* The account of the calls that returned True: amounts summed as the floats they are.
Contabiliza(a, tipo, valor, ok) ==
    IF ~ok THEN a
    ELSE IF tipo = "Deposito"
         THEN [a EXCEPT !.dep = FAdd(@, valor), !.n = @ + 1]
         ELSE [a EXCEPT !.saq = FAdd(@, valor), !.n = @ + 1, !.nsaq = @ + 1]

(***************************************************************************)
(* The account API: one ContaCorrente of one client, called directly,      *)
(* through Transacao.registrar, or through Cliente.realizar_transacao      *)
(***************************************************************************)
CpfReferencia == <<"5", "2", "9", "9", "8", "2", "2", "4", "7", "2", "5">>

Init ==
    /\ rev \in {1, 2}
    /\ exclusao = TRUE
    /\ threads = << >>
    /\ historicos = SemHistoricos
    /\ clientes = << Cliente_adicionar_conta(PessoaFisica(CpfReferencia), 1) >>
    /\ contas = << ContaCorrente_nova_conta(1, 1) >>
    /\ numero_conta = 2
    /\ relogio = 0
    /\ call = NenhumaChamada
    /\ aceitos = << AceitosZero >>
    /\ cpf_in = << >>
    /\ cpf_out = NaoChamado
    /\ pc = "menu"

\* conta.depositar(valor), called on the account itself.
Depositar(i, valor) ==
    /\ LET g == Conta_depositar(rev, contas[i], valor, relogio) IN
       /\ contas' = [contas EXCEPT ![i] = g.conta]
       /\ call' = Chamada("depositar", i, "Deposito", valor, PyBool(g.ret), g.err,
                          g.ret, contas[i])
       /\ g.ret => aceitos[i].n < MaxOps
       /\ aceitos' = [aceitos EXCEPT ![i] = Contabiliza(@, "Deposito", valor, g.ret)]
    /\ UNCHANGED <<rev, exclusao, threads, historicos, clientes, numero_conta, relogio, cpf_in, cpf_out, pc>>

\* conta.sacar(valor), called on the account itself.
Sacar(i, valor) ==
    /\ LET g == ContaCorrente_sacar(rev, contas[i], valor, relogio) IN
       /\ contas' = [contas EXCEPT ![i] = g.conta]
       /\ call' = Chamada("sacar", i, "Saque", valor, PyBool(g.ret), g.err,
                          g.ret, contas[i])
       /\ g.ret => aceitos[i].n < MaxOps
       /\ aceitos' = [aceitos EXCEPT ![i] = Contabiliza(@, "Saque", valor, g.ret)]
    /\ UNCHANGED <<rev, exclusao, threads, historicos, clientes, numero_conta, relogio, cpf_in, cpf_out, pc>>

\* transacao.registrar(conta) for a Deposito or a Saque.
Registrar(i, t) ==
    /\ isinstance_Transacao(t)
    /\ LET g == Transacao_registrar(rev, t, contas[i], relogio) IN
       /\ contas' = [contas EXCEPT ![i] = g.conta]
       /\ call' = Chamada("registrar", i, t.tipo, t.valor, PyBool(g.ret), g.err,
                          g.ret, contas[i])
       /\ g.ret => aceitos[i].n < MaxOps
       /\ aceitos' = [aceitos EXCEPT ![i] = Contabiliza(@, t.tipo, t.valor, g.ret)]
    /\ UNCHANGED <<rev, exclusao, threads, historicos, clientes, numero_conta, relogio, cpf_in, cpf_out, pc>>

\* cliente.realizar_transacao(conta, transacao), transacao being any object.
RealizarTransacao(i, t) ==
    /\ LET g == Cliente_realizar_transacao(rev, contas[i], t, relogio) IN
       /\ contas' = [contas EXCEPT ![i] = g.conta]
       /\ call' = Chamada("realizar_transacao", i, t.tipo, t.valor, g.ret, g.err,
                          g.aceito, contas[i])
       /\ g.aceito => aceitos[i].n < MaxOps
       /\ aceitos' = [aceitos EXCEPT ![i] = Contabiliza(@, t.tipo, t.valor, g.aceito)]
    /\ UNCHANGED <<rev, exclusao, threads, historicos, clientes, numero_conta, relogio, cpf_in, cpf_out, pc>>

\* The transaction objects a caller may hold: built now, of either class or of none.
Transacoes ==
    {Deposito(v, relogio) : v \in ValoresDeposito} \cup {Saque(v, relogio) : v \in ValoresSaque}

Objetos == Transacoes \cup {NaoTransacao(0, relogio)}

Next ==
    \/ \E i \in 1..Len(contas), v \in ValoresDeposito : Depositar(i, v)
    \/ \E i \in 1..Len(contas), v \in ValoresSaque : Sacar(i, v)
    \/ \E i \in 1..Len(contas), t \in Transacoes : Registrar(i, t)
    \/ \E i \in 1..Len(contas), t \in Objetos : RealizarTransacao(i, t)

Spec == Init /\ [][Next]_vars

(***************************************************************************)
(* The menu: main's loop over criar_usuario, criar_conta, depositar, sacar *)
(***************************************************************************)
\* Bounds of the menu specification: clients registered, accounts created, and
\* deposits / withdrawals accepted over all accounts.  Accounts are requested while
\* main's counter is at most MaxNumero, so that a request may fail and leave a gap.
MaxClientes == 2
MaxContas == 2
MaxMovimentos == 2
MaxNumero == MaxContas + 1

\* The CPF texts typed at the prompts: the reference CPF, the same with its
\* punctuation, and the reference CPF with a wrong last digit.  (Other valid CPFs,
\* and texts holding a superscript two, are typed in the validator specification.)
CpfPontuado ==
    <<"5", "2", "9", ".", "9", "8", "2", ".", "2", "4", "7", "-", "2", "5">>
CpfDigitoErrado == <<"5", "2", "9", "9", "8", "2", "2", "4", "7", "2", "4">>
CpfsMenu == {CpfReferencia, CpfPontuado, CpfDigitoErrado}

\* The birth dates typed: 29-02-2000 (a leap day), 29-02-1900 (no such day),
\* 2000/01/01 (not dd-mm-yyyy).
DataTexto(ok, dia, mes, ano) == [formato |-> ok, dia |-> dia, mes |-> mes, ano |-> ano]
Datas ==
    { DataTexto(TRUE, 29, 2, 2000), DataTexto(TRUE, 29, 2, 1900),
      DataTexto(FALSE, 1, 1, 2000) }

bissexto(ano) == (ano % 4 = 0 /\ ano % 100 # 0) \/ ano % 400 = 0

dias_no_mes(mes, ano) ==
    IF mes = 2 THEN (IF bissexto(ano) THEN 29 ELSE 28)
    ELSE IF mes \in {4, 6, 9, 11} THEN 30 ELSE 31

\* Whether datetime.datetime.strptime(texto, "%d-%m-%Y") returns (it raises
\* ValueError otherwise): the text has the three fields and names a day that exists.
strptime_ok(d) ==
    /\ d.formato
    /\ d.ano \in 1..9999
    /\ d.mes \in 1..12
    /\ d.dia \in 1..dias_no_mes(d.mes, d.ano)

\* The amounts typed at the deposit / withdrawal prompts: zero and one within the
\* limit; and a text that is no number.
ValoresMenu == {0, LimitePadrao \div 5}
TextoValor(num, v) == [numerico |-> num, v |-> v]
TextosValor == {TextoValor(TRUE, v) : v \in ValoresMenu} \cup {TextoValor(FALSE, 0)}

\* float(valor_str)
float(txt) == IF txt.numerico THEN [exc |-> "none", v |-> txt.v]
              ELSE [exc |-> "ValueError", v |-> 0]

\* filtrar_cliente: the index in `clientes` of the first client whose cpf is the
\* text given, compared as a string; 0 for None.
filtrar_cliente(cpf, cls) ==
    LET achados == {k \in 1..Len(cls) : cls[k].cpf = cpf} IN
    IF achados = {} THEN 0 ELSE CHOOSE k \in achados : \A j \in achados : k <= j

\* recuperar_conta_cliente with contas[-1] for contas[0]: the client's newest account.
recuperar_conta_cliente_ultima(cliente) ==
    IF cliente.contas = << >> THEN 0 ELSE cliente.contas[Len(cliente.contas)]

\* recuperar_conta_cliente: the client's first account (its index in `contas`); 0 for None.
recuperar_conta_cliente(cliente) ==
    IF cliente.contas = << >> THEN 0 ELSE cliente.contas[1]

InitBanco ==
    /\ rev \in {1, 2}
    /\ exclusao = TRUE
    /\ threads = << >>
    /\ historicos = SemHistoricos
    /\ clientes = << >>
    /\ contas = << >>
    /\ numero_conta = 1
    /\ relogio = 0
    /\ call = NenhumaChamada
    /\ aceitos = << >>
    /\ cpf_in = << >>
    /\ cpf_out = NaoChamado
    /\ pc = "menu"

Movimentos == LET RECURSIVE soma(_)
                  soma(k) == IF k = 0 THEN 0 ELSE soma(k - 1) + aceitos[k].n
              IN soma(Len(aceitos))

\* What criar_usuario does with the CPF and the birth date typed: the error it
\* reports ("none": the client is appended; "ValueError": validar_cpf raised and
\* nothing catches it).  Revision 1 has no CPF validation.
criar_usuario_err(r, cpf, data, cls) ==
    LET v == validar_cpf(cpf) IN
    IF r = 2 /\ v.exc # "none" THEN v.exc
    ELSE IF r = 2 /\ ~v.ret THEN "InvalidNationalId"
    ELSE IF filtrar_cliente(cpf, cls) # 0 THEN "DuplicateClient"
    ELSE IF ~strptime_ok(data) THEN "InvalidDate"
    ELSE "none"

\* Option nc: criar_usuario(clientes).
OpcaoNovoUsuario(cpf, data) ==
    /\ pc = "menu"
    /\ LET e == criar_usuario_err(rev, cpf, data, clientes) IN
       /\ e = "none" => Len(clientes) < MaxClientes
       /\ clientes' = IF e = "none" THEN Append(clientes, PessoaFisica(cpf)) ELSE clientes
       /\ pc' = IF e = "ValueError" THEN "erro" ELSE "menu"
       /\ call' = Chamada("criar_usuario", 0, "Outro", 0, "None", e, FALSE,
                              NenhumaConta)
    /\ UNCHANGED <<rev, exclusao, threads, historicos, contas, numero_conta, relogio, aceitos, cpf_in, cpf_out>>

\* Option nu without main's `numero_conta += 1`: the counter stays where it was.
OpcaoNovaConta_sem_incremento(cpf) ==
    /\ pc = "menu"
    /\ numero_conta <= MaxNumero
    /\ LET k == filtrar_cliente(cpf, clientes) IN
       IF k = 0
       THEN /\ call' = Chamada("criar_conta", 0, "Outro", 0, "None",
                                   "ClientNotFound", FALSE, NenhumaConta)
            /\ UNCHANGED <<clientes, contas, aceitos>>
       ELSE /\ Len(contas) < MaxContas
            /\ contas' = Append(contas, ContaCorrente_nova_conta(k, numero_conta))
            /\ clientes' = [clientes EXCEPT ![k] = Cliente_adicionar_conta(@, Len(contas) + 1)]
            /\ aceitos' = Append(aceitos, AceitosZero)
            /\ call' = Chamada("criar_conta", Len(contas) + 1, "Outro", 0, "None",
                                   "none", FALSE, NenhumaConta)
    /\ UNCHANGED <<rev, exclusao, threads, historicos, numero_conta, relogio, cpf_in, cpf_out, pc>>

\* Option nu: criar_conta(numero_conta, clientes, contas), then numero_conta += 1
\* whatever criar_conta did.
OpcaoNovaConta(cpf) ==
    /\ pc = "menu"
    /\ numero_conta <= MaxNumero
    /\ LET k == filtrar_cliente(cpf, clientes) IN
       IF k = 0
       THEN /\ call' = Chamada("criar_conta", 0, "Outro", 0, "None",
                                   "ClientNotFound", FALSE, NenhumaConta)
            /\ UNCHANGED <<clientes, contas, aceitos>>
       ELSE /\ Len(contas) < MaxContas
            /\ contas' = Append(contas, ContaCorrente_nova_conta(k, numero_conta))
            /\ clientes' = [clientes EXCEPT ![k] = Cliente_adicionar_conta(@, Len(contas) + 1)]
            /\ aceitos' = Append(aceitos, AceitosZero)
            /\ call' = Chamada("criar_conta", Len(contas) + 1, "Outro", 0, "None",
                                   "none", FALSE, NenhumaConta)
    /\ numero_conta' = numero_conta + 1
    /\ UNCHANGED <<rev, exclusao, threads, historicos, relogio, cpf_in, cpf_out, pc>>

\* Options d and s: depositar(clientes) / sacar(clientes), tipo being the class of
\* the transaction the function builds.  Revision 1 does not catch float()'s
\* ValueError.
OpcaoMovimento(op, tipo, cpf, txt) ==
    /\ pc = "menu"
    /\ LET k == filtrar_cliente(cpf, clientes)
           f == float(txt)
           t == [tipo |-> tipo, valor |-> f.v, data |-> relogio]
           i == IF k = 0 THEN 0 ELSE recuperar_conta_cliente(clientes[k])
       IN
       IF k = 0
       THEN /\ call' = Chamada(op, 0, tipo, 0, "None", "ClientNotFound", FALSE,
                                   NenhumaConta)
            /\ UNCHANGED <<contas, aceitos, pc>>
       ELSE IF f.exc # "none"
       THEN /\ call' = Chamada(op, 0, tipo, 0, "None",
                                   IF rev = 2 THEN "InvalidValue" ELSE f.exc, FALSE,
                                   NenhumaConta)
            /\ pc' = IF rev = 2 THEN "menu" ELSE "erro"
            /\ UNCHANGED <<contas, aceitos>>
       ELSE IF i = 0
       THEN /\ call' = Chamada(op, 0, tipo, 0, "None", "NoAccountForClient",
                                   FALSE, NenhumaConta)
            /\ UNCHANGED <<contas, aceitos, pc>>
       ELSE LET g == Cliente_realizar_transacao(rev, contas[i], t, relogio) IN
            /\ g.aceito => Movimentos < MaxMovimentos
            /\ contas' = [contas EXCEPT ![i] = g.conta]
            /\ aceitos' = [aceitos EXCEPT ![i] = Contabiliza(@, tipo, f.v, g.aceito)]
            /\ call' = Chamada(op, i, tipo, f.v, g.ret, g.err, g.aceito,
                                   contas[i])
            /\ UNCHANGED pc
    /\ UNCHANGED <<rev, exclusao, threads, historicos, clientes, numero_conta, relogio, cpf_in, cpf_out>>

OpcaoDepositar(cpf, txt) == OpcaoMovimento("menu_depositar", "Deposito", cpf, txt)
OpcaoSacar(cpf, txt) == OpcaoMovimento("menu_sacar", "Saque", cpf, txt)

\* Option q: break.
OpcaoSair ==
    /\ pc = "menu"
    /\ pc' = "fim"
    /\ call' = Chamada("sair", 0, "Outro", 0, "None", "none", FALSE, NenhumaConta)
    /\ UNCHANGED <<rev, exclusao, threads, historicos, clientes, contas, numero_conta, relogio, aceitos, cpf_in, cpf_out>>

NextBanco ==
    \/ \E cpf \in CpfsMenu, data \in Datas : OpcaoNovoUsuario(cpf, data)
    \/ \E cpf \in CpfsMenu : OpcaoNovaConta(cpf)
    \/ \E cpf \in CpfsMenu, txt \in TextosValor : OpcaoDepositar(cpf, txt)
    \/ \E cpf \in CpfsMenu, txt \in TextosValor : OpcaoSacar(cpf, txt)
    \/ OpcaoSair

SpecBanco == InitBanco /\ [][NextBanco]_vars

(***************************************************************************)
(* The validator alone: validar_cpf applied to one CPF text                *)
(***************************************************************************)
\* The first nine digits of the texts tried: those of the reference CPF, 123456789
\* (whose first check digit comes from a remainder below 2), a repeated digit, and
\* 000000001.
Bases ==
    { <<"5", "2", "9", "9", "8", "2", "2", "4", "7">>,
      <<"1", "2", "3", "4", "5", "6", "7", "8", "9">>,
      <<"1", "1", "1", "1", "1", "1", "1", "1", "1">>,
      <<"0", "0", "0", "0", "0", "0", "0", "0", "1">> }

\* The characters tried in the two check positions.
Finais == {"0", "1", "2", "4", "5", "9", Sup2}

\* A text of eleven characters written with the usual punctuation: ddd.ddd.ddd-dd
pontuar(c) ==
    <<c[1], c[2], c[3], ".", c[4], c[5], c[6], ".", c[7], c[8], c[9], "-", c[10], c[11]>>

\* The texts tried: each base with each pair of final characters, plain and
\* punctuated, and the same one character short and one character long.
CpfsOnze == {b \o <<x, y>> : b \in Bases, x \in Finais, y \in Finais}
CpfsValidador ==
    CpfsOnze \cup {pontuar(c) : c \in CpfsOnze}
             \cup {SubSeq(c, 1, 10) : c \in CpfsOnze}
             \cup {c \o <<"0">> : c \in CpfsOnze}

InitValidador ==
    /\ rev = 2
    /\ exclusao = TRUE
    /\ threads = << >>
    /\ historicos = SemHistoricos
    /\ clientes = << >>
    /\ contas = << >>
    /\ numero_conta = 1
    /\ relogio = 0
    /\ call = NenhumaChamada
    /\ aceitos = << >>
    /\ cpf_in \in CpfsValidador
    /\ cpf_out = NaoChamado
    /\ pc = "menu"

\* validar_cpf(cpf_in)
Validar ==
    /\ cpf_out = NaoChamado
    /\ cpf_out' = validar_cpf(cpf_in)
    /\ UNCHANGED <<rev, exclusao, threads, historicos, clientes, contas, numero_conta, relogio, call, aceitos, cpf_in, pc>>

NextValidador == Validar

SpecValidador == InitValidador /\ [][NextValidador]_vars

(***************************************************************************)
(* The account API with the clock running: a transaction object carries    *)
(* the instant of its construction and is applied at that instant or later *)
(***************************************************************************)
\* The last instant of the clock, in ticks.
MaxRelogio == 3

InitRelogio == Init

\* Time passes between two calls.
Tique ==
    /\ relogio < MaxRelogio
    /\ relogio' = relogio + 1
    /\ UNCHANGED <<rev, exclusao, threads, historicos, clientes, contas, numero_conta, call, aceitos, cpf_in, cpf_out, pc>>

\* The Deposito / Saque objects a caller may hold now: built at some instant up to now.
Construidas ==
    {Deposito(v, d) : v \in ValoresMenu, d \in 0..relogio}
        \cup {Saque(v, d) : v \in ValoresMenu, d \in 0..relogio}

NextRelogio ==
    \/ Tique
    \/ \E i \in 1..Len(contas), t \in Construidas : Registrar(i, t)
    \/ \E i \in 1..Len(contas), t \in Construidas : RealizarTransacao(i, t)

SpecRelogio == InitRelogio /\ [][NextRelogio]_vars

(***************************************************************************)
(* The two revisions side by side: two fresh accounts, contas[1] run by    *)
(* the code of revision 1 and contas[2] by the code of revision 2, handed  *)
(* the same transactions through Cliente.realizar_transacao                *)
(***************************************************************************)
InitEquivalencia ==
    /\ rev = 0
    /\ exclusao = TRUE
    /\ threads = << >>
    /\ historicos = SemHistoricos
    /\ clientes = << Cliente_adicionar_conta(Cliente_adicionar_conta(PessoaFisica(CpfReferencia), 1), 2) >>
    /\ contas = << ContaCorrente_nova_conta(1, 1), ContaCorrente_nova_conta(1, 1) >>
    /\ numero_conta = 2
    /\ relogio = 0
    /\ call = NenhumaChamada
    /\ aceitos = << AceitosZero, AceitosZero >>
    /\ cpf_in = << >>
    /\ cpf_out = NaoChamado
    /\ pc = "menu"

\* cliente.realizar_transacao(conta, t) in each revision, on its own account.  The
\* call recorded is revision 2's.
RealizarNasDuas(t) ==
    /\ LET g1 == Cliente_realizar_transacao(1, contas[1], t, relogio)
           g2 == Cliente_realizar_transacao(2, contas[2], t, relogio)
       IN
       /\ g1.aceito \/ g2.aceito => aceitos[1].n < MaxOps /\ aceitos[2].n < MaxOps
       /\ contas' = << g1.conta, g2.conta >>
       /\ aceitos' = << Contabiliza(aceitos[1], t.tipo, t.valor, g1.aceito),
                        Contabiliza(aceitos[2], t.tipo, t.valor, g2.aceito) >>
       /\ call' = Chamada("realizar_transacao", 2, t.tipo, t.valor, g2.ret, g2.err,
                          g2.aceito, contas[2])
    /\ UNCHANGED <<rev, exclusao, threads, historicos, clientes, numero_conta, relogio, cpf_in, cpf_out, pc>>

\* The transaction objects handed to both revisions, built at some instant up to now:
\* deposits of NaN, of zero and of the limit; withdrawals of zero, of a fifth of the
\* limit and of one above the limit.
TransacoesConstruidas ==
    {Deposito(v, d) : v \in {NaN, 0, LimitePadrao}, d \in 0..relogio}
        \cup {Saque(v, d) : v \in {0, LimitePadrao \div 5, LimitePadrao + 1}, d \in 0..relogio}

NextEquivalencia ==
    \/ Tique
    \/ \E t \in TransacoesConstruidas : RealizarNasDuas(t)

SpecEquivalencia == InitEquivalencia /\ [][NextEquivalencia]_vars

(***************************************************************************)
(* Threads: two callers of depositar / sacar on the one account, each      *)
(* method run statement by statement.  `self._saldo -= valor` and          *)
(* `self._numero_saques += 1` are a load and a store, as the interpreter   *)
(* runs them.  With `exclusao` a call starts only while no other thread is *)
(* inside a method (one lock per account, held from call to return).       *)
(***************************************************************************)
Threads == {1, 2}

\* Calls each thread makes.
MaxChamadas == 2

\* The amounts the threads deposit and withdraw.
DepositosDasThreads == {NaN, 0, LimitePadrao \div 5}
SaquesDasThreads == {0, LimitePadrao \div 5, LimitePadrao + 1}

Ociosa(n) ==
    [ fase |-> "ociosa", op |-> "nenhuma", valor |-> 0, tmp |-> 0, ret |-> "None",
      err |-> "none", chamadas |-> n ]

InitThreads ==
    /\ rev \in {1, 2}
    /\ exclusao \in BOOLEAN
    /\ threads = [t \in Threads |-> Ociosa(0)]
    /\ historicos = SemHistoricos
    /\ clientes = << Cliente_adicionar_conta(PessoaFisica(CpfReferencia), 1) >>
    /\ contas = << ContaCorrente_nova_conta(1, 1) >>
    /\ numero_conta = 2
    /\ relogio = 0
    /\ call = NenhumaChamada
    /\ aceitos = << AceitosZero >>
    /\ cpf_in = << >>
    /\ cpf_out = NaoChamado
    /\ pc = "menu"

\* What no step of a thread touches.
ForaDasThreads == <<rev, exclusao, historicos, clientes, numero_conta, relogio, call, aceitos, cpf_in, cpf_out, pc>>

\* The thread returns ret, having printed err.
Volta(t, ret, err) ==
    threads' = [threads EXCEPT ![t] = [@ EXCEPT !.fase = "ociosa", !.ret = PyBool(ret), !.err = err]]

Segue(t, fase) == threads' = [threads EXCEPT ![t].fase = fase]

\* Thread t calls conta.depositar(valor) or conta.sacar(valor).
Chamar(t, op, valor) ==
    /\ threads[t].fase = "ociosa"
    /\ threads[t].chamadas < MaxChamadas
    /\ exclusao => \A u \in Threads : threads[u].fase = "ociosa"
    /\ threads' = [threads EXCEPT ![t] =
                      [ fase |-> IF op = "sacar" THEN "guardas" ELSE "valida",
                        op |-> op, valor |-> valor, tmp |-> 0, ret |-> "None",
                        err |-> "none", chamadas |-> @.chamadas + 1 ]]
    /\ UNCHANGED <<contas, ForaDasThreads>>

\* ContaCorrente.sacar: excedeu_limite, excedeu_saques and the if / elif on them.
Guardas(t) ==
    /\ threads[t].fase = "guardas"
    /\ IF FGt(threads[t].valor, contas[1].limite) THEN Volta(t, FALSE, "LimitExceeded")
       ELSE IF contas[1].numero_saques >= contas[1].limite_saques
            THEN Volta(t, FALSE, "WithdrawalCapReached")
       ELSE Segue(t, "testa")
    /\ UNCHANGED <<contas, ForaDasThreads>>

\* Conta.sacar: `if valor <= 0` and `if valor > self._saldo`.
TestaSaldo(t) ==
    /\ threads[t].fase = "testa"
    /\ IF FLe(threads[t].valor, 0) THEN Volta(t, FALSE, "InvalidAmount")
       ELSE IF FGt(threads[t].valor, contas[1].saldo)
            THEN Volta(t, FALSE, "InsufficientFunds")
       ELSE Segue(t, "le_saldo")
    /\ UNCHANGED <<contas, ForaDasThreads>>

\* Conta.depositar: `if valor <= 0`.
ValidaDeposito(t) ==
    /\ threads[t].fase = "valida"
    /\ IF FLe(threads[t].valor, 0) THEN Volta(t, FALSE, "InvalidAmount")
       ELSE Segue(t, "le_saldo")
    /\ UNCHANGED <<contas, ForaDasThreads>>

\* self._saldo -= valor / self._saldo += valor: the load and the arithmetic.
LeSaldo(t) ==
    /\ threads[t].fase = "le_saldo"
    /\ threads' = [threads EXCEPT ![t] =
                      [@ EXCEPT !.fase = "grava_saldo",
                                !.tmp = IF threads[t].op = "sacar"
                                        THEN FSub(contas[1].saldo, threads[t].valor)
                                        ELSE FAdd(contas[1].saldo, threads[t].valor)]]
    /\ UNCHANGED <<contas, ForaDasThreads>>

\* self._saldo -= valor / self._saldo += valor: the store.
GravaSaldo(t) ==
    /\ threads[t].fase = "grava_saldo"
    /\ contas' = [contas EXCEPT ![1].saldo = threads[t].tmp]
    /\ IF rev = 2 THEN Segue(t, "anota")
       ELSE IF threads[t].op = "sacar" THEN Segue(t, "le_saques")
       ELSE Volta(t, TRUE, "none")
    /\ UNCHANGED ForaDasThreads

\* Revision 2: self.historico.adicionar_transacao(Saque(valor) / Deposito(valor)),
\* and depositar's `return True`.
Anota(t) ==
    /\ threads[t].fase = "anota"
    /\ contas' = [contas EXCEPT ![1].historico =
                     Historico_adicionar_transacao(@,
                         IF threads[t].op = "sacar" THEN Saque(threads[t].valor, relogio)
                         ELSE Deposito(threads[t].valor, relogio))]
    /\ IF threads[t].op = "sacar" THEN Segue(t, "le_saques") ELSE Volta(t, TRUE, "none")
    /\ UNCHANGED ForaDasThreads

\* ContaCorrente.sacar: self._numero_saques += 1, the load and the arithmetic.
LeSaques(t) ==
    /\ threads[t].fase = "le_saques"
    /\ threads' = [threads EXCEPT ![t] =
                      [@ EXCEPT !.fase = "grava_saques", !.tmp = contas[1].numero_saques + 1]]
    /\ UNCHANGED <<contas, ForaDasThreads>>

\* ContaCorrente.sacar: self._numero_saques += 1, the store; `return True`.
GravaSaques(t) ==
    /\ threads[t].fase = "grava_saques"
    /\ contas' = [contas EXCEPT ![1].numero_saques = threads[t].tmp]
    /\ Volta(t, TRUE, "none")
    /\ UNCHANGED ForaDasThreads

NextThreads ==
    \/ \E t \in Threads, v \in DepositosDasThreads : Chamar(t, "depositar", v)
    \/ \E t \in Threads, v \in SaquesDasThreads : Chamar(t, "sacar", v)
    \/ \E t \in Threads : Guardas(t)
    \/ \E t \in Threads : TestaSaldo(t)
    \/ \E t \in Threads : ValidaDeposito(t)
    \/ \E t \in Threads : LeSaldo(t)
    \/ \E t \in Threads : GravaSaldo(t)
    \/ \E t \in Threads : Anota(t)
    \/ \E t \in Threads : LeSaques(t)
    \/ \E t \in Threads : GravaSaques(t)

SpecThreads == InitThreads /\ [][NextThreads]_vars

(***************************************************************************)
(* The accounts as objects: Conta.__init__ gives the account a Historico   *)
(* and the account's history is whatever that object holds.  Two           *)
(* registered clients are given accounts, and depositar / sacar are called *)
(* on any of the accounts.                                                 *)
(***************************************************************************)
\* One Historico for the whole class: every account after the first refers to the
\* object of the first.
Conta_init_historico_partilhado(hs) ==
    IF hs.transacoes = << >>
    THEN [de |-> Append(hs.de, 1), transacoes |-> Append(hs.transacoes, << >>)]
    ELSE [hs EXCEPT !.de = Append(@, 1)]

\* Conta.__init__'s `self._historico = Historico()`, Historico.__init__ binding a new
\* empty list: the account being built refers to an object no other account holds.
Conta_init_historico(hs) ==
    [de |-> Append(hs.de, Len(hs.transacoes) + 1), transacoes |-> Append(hs.transacoes, << >>)]

\* conta.historico.transacoes of every account, read through the account's reference.
ContasVistas(cs, hs) ==
    [j \in 1..Len(cs) |-> [cs[j] EXCEPT !.historico = hs.transacoes[hs.de[j]]]]

InitObjetos ==
    /\ rev \in {1, 2}
    /\ exclusao = TRUE
    /\ threads = << >>
    /\ historicos = SemHistoricos
    /\ clientes = << PessoaFisica(CpfReferencia), PessoaFisica(CpfPontuado) >>
    /\ contas = << >>
    /\ numero_conta = 1
    /\ relogio = 0
    /\ call = NenhumaChamada
    /\ aceitos = << >>
    /\ cpf_in = << >>
    /\ cpf_out = NaoChamado
    /\ pc = "menu"

\* criar_conta for the client found, then main's numero_conta += 1.
CriarContaObjeto(k) ==
    /\ Len(contas) < MaxContas
    /\ LET hs == Conta_init_historico(historicos) IN
       /\ historicos' = hs
       /\ contas' = ContasVistas(Append(contas, ContaCorrente_nova_conta(k, numero_conta)), hs)
    /\ clientes' = [clientes EXCEPT ![k] = Cliente_adicionar_conta(@, Len(contas) + 1)]
    /\ aceitos' = Append(aceitos, AceitosZero)
    /\ numero_conta' = numero_conta + 1
    /\ call' = Chamada("criar_conta", Len(contas) + 1, "Outro", 0, "None", "none", FALSE,
                       NenhumaConta)
    /\ UNCHANGED <<rev, exclusao, threads, relogio, cpf_in, cpf_out, pc>>

\* conta.depositar(valor) on account i: what it appends goes to the Historico the
\* account refers to.
DepositarObjeto(i, valor) ==
    /\ LET g == Conta_depositar(rev, contas[i], valor, relogio)
           hs == [historicos EXCEPT !.transacoes[historicos.de[i]] = g.conta.historico]
       IN
       /\ g.ret => Movimentos < MaxMovimentos
       /\ historicos' = hs
       /\ contas' = ContasVistas([contas EXCEPT ![i] = g.conta], hs)
       /\ call' = Chamada("depositar", i, "Deposito", valor, PyBool(g.ret), g.err,
                          g.ret, contas[i])
       /\ aceitos' = [aceitos EXCEPT ![i] = Contabiliza(@, "Deposito", valor, g.ret)]
    /\ UNCHANGED <<rev, exclusao, threads, clientes, numero_conta, relogio, cpf_in, cpf_out, pc>>

\* conta.sacar(valor) on account i.
SacarObjeto(i, valor) ==
    /\ LET g == ContaCorrente_sacar(rev, contas[i], valor, relogio)
           hs == [historicos EXCEPT !.transacoes[historicos.de[i]] = g.conta.historico]
       IN
       /\ g.ret => Movimentos < MaxMovimentos
       /\ historicos' = hs
       /\ contas' = ContasVistas([contas EXCEPT ![i] = g.conta], hs)
       /\ call' = Chamada("sacar", i, "Saque", valor, PyBool(g.ret), g.err,
                          g.ret, contas[i])
       /\ aceitos' = [aceitos EXCEPT ![i] = Contabiliza(@, "Saque", valor, g.ret)]
    /\ UNCHANGED <<rev, exclusao, threads, clientes, numero_conta, relogio, cpf_in, cpf_out, pc>>

NextObjetos ==
    \/ \E k \in 1..Len(clientes) : CriarContaObjeto(k)
    \/ \E i \in 1..Len(contas), v \in DepositosDasThreads : DepositarObjeto(i, v)
    \/ \E i \in 1..Len(contas), v \in SaquesDasThreads : SacarObjeto(i, v)

SpecObjetos == InitObjetos /\ [][NextObjetos]_vars

(***************************************************************************)
(* Shorthands of the properties                                            *)
(***************************************************************************)
Indices == 1..Len(contas)

\* The amounts a withdrawal is evaluated for in a state: those the actions hand to
\* sacar, and NaN.
ValoresSaqueENaN == ValoresSaque \cup {NaN}

\* Python's x == y on floats: False as soon as one side is NaN.
FEq(x, y) == ~IsNaN(x) /\ ~IsNaN(y) /\ x = y

\* The last call reached the account's depositar / its sacar, by whichever path.
FoiDeposito == call.op \in {"depositar", "registrar", "realizar_transacao"} /\ call.tipo = "Deposito"
FoiSaque == call.op \in {"sacar", "registrar", "realizar_transacao"} /\ call.tipo = "Saque"

\* The account the last call was made on, as it is now.
ContaDaChamada == contas[call.conta]

(***************************************************************************)
(* C1: in every reachable state the balance of every account is the sum of *)
(* the amounts of the deposits that returned success minus the sum of the  *)
(* amounts of the withdrawals that returned success, and is >= 0.          *)
(***************************************************************************)
C1_SaldoContabil ==
    \A i \in Indices :
        /\ FEq(contas[i].saldo, FSub(aceitos[i].dep, aceitos[i].saq))
        /\ FGe(contas[i].saldo, 0)

\* The same statement for the accounts that were never handed a NaN amount.
C1_SaldoContabilFinito ==
    \A i \in Indices :
        ~IsNaN(aceitos[i].dep) /\ ~IsNaN(aceitos[i].saq) =>
            /\ contas[i].saldo = aceitos[i].dep - aceitos[i].saq
            /\ contas[i].saldo >= 0

(***************************************************************************)
(* C2: in every reachable state the length of an account's history is the  *)
(* number of deposit / withdraw calls on it that returned success, whether *)
(* the call was made on the account or came through Transacao.registrar or *)
(* Cliente.realizar_transacao.                                             *)
(***************************************************************************)
C2_HistoricoContaSucessos ==
    \A i \in Indices : Len(contas[i].historico) = aceitos[i].n

\* The same statement for revision 2 alone, where the account records its own history.
C2_HistoricoContaSucessosRev2 ==
    rev = 2 => \A i \in Indices : Len(contas[i].historico) = aceitos[i].n

C4_LimitePorSaque ==
    /\ \A i \in Indices : \A v \in ValoresSaqueENaN :
          /\ FGt(v, contas[i].limite) =>
                ContaCorrente_sacar(rev, contas[i], v, relogio)
                    = Res(contas[i], FALSE, "LimitExceeded")
          /\ v = contas[i].limite =>
                ContaCorrente_sacar(rev, contas[i], v, relogio).err # "LimitExceeded"
    /\ FoiSaque /\ FGt(call.valor, call.antes.limite) =>
          /\ call.err = "LimitExceeded"
          /\ ~call.aceito
          /\ ContaDaChamada = call.antes
    /\ FoiSaque /\ call.valor = call.antes.limite => call.err # "LimitExceeded"

C4_Witness ==
    /\ FoiSaque
    /\ call.valor = LimitePadrao + 1
    /\ call.antes.saldo >= call.valor
    /\ call.antes.numero_saques < LimiteSaquesPadrao
    /\ call.err = "LimitExceeded"

(***************************************************************************)
(* C5: in every reachable state a deposit of an amount <= 0 fails with     *)
(* InvalidAmount and leaves the account (balance, history, numero_saques)  *)
(* exactly as it was, so that repeating it changes nothing either.         *)
(***************************************************************************)
C5_DepositoInvalido ==
    /\ \A i \in Indices : \A v \in ValoresDeposito :
          FLe(v, 0) =>
              Conta_depositar(rev, contas[i], v, relogio)
                  = Res(contas[i], FALSE, "InvalidAmount")
    /\ FoiDeposito /\ FLe(call.valor, 0) =>
          /\ call.err = "InvalidAmount"
          /\ ~call.aceito
          /\ call.ret # "True"
          /\ ContaDaChamada = call.antes

C5_Witness ==
    /\ FoiDeposito
    /\ call.valor = 0
    /\ call.err = "InvalidAmount"
    /\ call.antes.saldo > 0
    /\ Len(call.antes.historico) > 0
    /\ ContaDaChamada = call.antes

(***************************************************************************)
(* C6: the error a ContaCorrente withdrawal reports is the first that      *)
(* holds in the order LimitExceeded, WithdrawalCapReached, InvalidAmount,  *)
(* InsufficientFunds.                                                      *)
(***************************************************************************)
PrimeiroErro(conta, v) ==
    IF FGt(v, conta.limite) THEN "LimitExceeded"
    ELSE IF conta.numero_saques >= conta.limite_saques THEN "WithdrawalCapReached"
    ELSE IF FLe(v, 0) THEN "InvalidAmount"
    ELSE IF FGt(v, conta.saldo) THEN "InsufficientFunds"
    ELSE "none"

C6_OrdemDosErros ==
    /\ \A i \in Indices : \A v \in ValoresSaqueENaN :
          ContaCorrente_sacar(rev, contas[i], v, relogio).err = PrimeiroErro(contas[i], v)
    /\ FoiSaque => call.err = PrimeiroErro(call.antes, call.valor)

C6_Witness ==
    /\ FoiSaque
    /\ call.valor <= 0
    /\ call.antes.numero_saques = LimiteSaquesPadrao
    /\ call.err = "WithdrawalCapReached"

(***************************************************************************)
(* C7: a ContaCorrente withdrawal adds exactly 1 to numero_saques when it  *)
(* succeeds and leaves it alone when it fails; one that passes the limit   *)
(* and cap guards and fails in Conta.sacar reports Conta.sacar's error.    *)
(***************************************************************************)
C7_ContagemDeSaques ==
    /\ \A i \in Indices : \A v \in ValoresSaqueENaN :
          LET g == ContaCorrente_sacar(rev, contas[i], v, relogio) IN
          /\ g.conta.numero_saques = contas[i].numero_saques + (IF g.ret THEN 1 ELSE 0)
          /\ ( /\ ~FGt(v, contas[i].limite)
               /\ contas[i].numero_saques < contas[i].limite_saques
               /\ ~g.ret )
             => /\ g.err = Conta_sacar(rev, contas[i], v, relogio).err
                /\ g.err \in {"InvalidAmount", "InsufficientFunds"}
    /\ FoiSaque =>
          ContaDaChamada.numero_saques
              = call.antes.numero_saques + (IF call.aceito THEN 1 ELSE 0)

C7_Witness ==
    /\ FoiSaque
    /\ call.err = "InsufficientFunds"
    /\ call.antes.numero_saques = 1
    /\ ContaDaChamada.numero_saques = 1

(***************************************************************************)
(* C10: Cliente.realizar_transacao returns True exactly when the account   *)
(* accepted the transaction and False exactly when it refused it; for an   *)
(* object that is no transaction it returns False and leaves the account   *)
(* as it was; the account changes only as its depositar / sacar changed it.*)
(***************************************************************************)
C10_RetornoRealizarTransacao ==
    call.op = "realizar_transacao" =>
        /\ call.ret = PyBool(call.aceito)
        /\ call.aceito => Len(ContaDaChamada.historico) = Len(call.antes.historico) + 1
        /\ ~call.aceito => ContaDaChamada = call.antes
        /\ call.tipo = "Outro" => call.ret = "False" /\ ContaDaChamada = call.antes

\* The same statement for revision 2 alone.
C10_RetornoRealizarTransacaoRev2 ==
    rev = 2 => C10_RetornoRealizarTransacao

(***************************************************************************)
(* C8: after any sequence of criar_usuario calls no two clients of the     *)
(* registry have the same CPF, the CPF being the digits of the text typed  *)
(* (what validar_cpf checks), so also when it is typed once with its       *)
(* punctuation and once without.  (Revision 2, the one with validar_cpf.)  *)
(***************************************************************************)
C8_CpfUnico ==
    rev = 2 =>
        \A j, k \in 1..Len(clientes) :
            j # k => so_digitos(clientes[j].cpf) # so_digitos(clientes[k].cpf)

\* What the registry does keep apart: the texts, compared as strings.
C8_TextoUnico ==
    \A j, k \in 1..Len(clientes) : j # k => clientes[j].cpf # clientes[k].cpf

(***************************************************************************)
(* C9: validar_cpf returns True exactly when the digits of the text are    *)
(* eleven, not all the same, the tenth is the check digit of the first     *)
(* nine (weights 10..2) and the eleventh the check digit of the first ten  *)
(* (weights 11..2), a check digit being 0 for a remainder of the sum by 11 *)
(* below 2 and 11 minus the remainder otherwise; it returns False          *)
(* otherwise; and it returns the same for a text and for its digits.       *)
(***************************************************************************)
\* sum of d[k] * (n + 2 - k) for k in 1..n
RECURSIVE SomaPonderada(_, _, _)
SomaPonderada(d, n, k) ==
    IF k > n THEN 0 ELSE int(d[k]) * (n + 2 - k) + SomaPonderada(d, n, k + 1)

DigitoEsperado(d, n) ==
    LET resto == SomaPonderada(d, n, 1) % 11 IN
    IF resto \in {0, 1} THEN 0 ELSE 11 - resto

\* A digit is what str.isdigit accepts; a check digit is a decimal digit.
CpfValido(cpf) ==
    LET d == SelectSeq(cpf, str_isdigit) IN
    /\ Len(d) = 11
    /\ \A k \in 1..11 : d[k] \in Digitos
    /\ \E k \in 2..11 : d[k] # d[1]
    /\ int(d[10]) = DigitoEsperado(d, 9)
    /\ int(d[11]) = DigitoEsperado(d, 10)

C9_ValidarCpf ==
    cpf_out # NaoChamado =>
        /\ cpf_out = Retorna(CpfValido(cpf_in))
        /\ cpf_out = validar_cpf(so_digitos(cpf_in))
        /\ cpf_in = <<"1", "1", "1", "1", "1", "1", "1", "1", "1", "1", "1">>
              => cpf_out = Retorna(FALSE)
        /\ cpf_in \in {CpfReferencia, CpfPontuado} => cpf_out = Retorna(TRUE)

\* The same statement for the texts made of ASCII digits and punctuation.
C9_ValidarCpfAscii ==
    (\A k \in 1..Len(cpf_in) : cpf_in[k] # Sup2) => C9_ValidarCpf

(***************************************************************************)
(* C11: criar_usuario adds a client only when the CPF typed passes the     *)
(* validation, no client with that CPF (its digits) is registered and the  *)
(* birth date is a real day written dd-mm-yyyy; a call that reports        *)
(* InvalidNationalId, DuplicateClient or InvalidDate leaves the clients    *)
(* and the accounts as they were; a call that succeeds appends exactly one *)
(* client, with no account, and leaves the accounts as they were.          *)
(***************************************************************************)
\* What one criar_usuario step must satisfy, `registado` saying whether the CPF
\* typed counts as registered already.
CriarUsuarioConforme(cpf, data, registado) ==
    /\ clientes' # clientes => CpfValido(cpf) /\ ~registado /\ strptime_ok(data)
    /\ call'.err \in {"InvalidNationalId", "DuplicateClient", "InvalidDate"} =>
          clientes' = clientes /\ contas' = contas
    /\ call'.err = "none" =>
          /\ Len(clientes') = Len(clientes) + 1
          /\ SubSeq(clientes', 1, Len(clientes)) = clientes
          /\ clientes'[Len(clientes')].cpf = cpf
          /\ clientes'[Len(clientes')].contas = << >>
          /\ contas' = contas

C11_CriarUsuario ==
    [][ \A cpf \in CpfsMenu, data \in Datas :
            OpcaoNovoUsuario(cpf, data) =>
                CriarUsuarioConforme(cpf, data,
                    \E k \in 1..Len(clientes) :
                        so_digitos(clientes[k].cpf) = so_digitos(cpf)) ]_vars

\* The same statement for revision 2 alone and for the CPF compared as the text typed.
C11_CriarUsuarioRev2Texto ==
    [][ \A cpf \in CpfsMenu, data \in Datas :
            rev = 2 /\ OpcaoNovoUsuario(cpf, data) =>
                CriarUsuarioConforme(cpf, data,
                    \E k \in 1..Len(clientes) : clientes[k].cpf = cpf) ]_vars

(***************************************************************************)
(* C12: after any sequence of menu options, requests for an account that   *)
(* fail with ClientNotFound included, no two accounts of main's list       *)
(* `contas` have the same number, the numbers grow strictly in the order   *)
(* the accounts were created, and main's counter is above all of them.     *)
(***************************************************************************)
C12_NumerosCrescentes ==
    /\ \A j, k \in Indices : j # k => contas[j].numero # contas[k].numero
    /\ \A j, k \in Indices : j < k => contas[j].numero < contas[k].numero
    /\ \A j \in Indices : contas[j].numero < numero_conta

\* Two accounts created with a request that failed between them.
C12_Witness ==
    /\ Len(contas) >= 2
    /\ contas[2].numero > contas[1].numero + 1
    /\ call.op = "criar_conta"
    /\ call.err = "none"

(***************************************************************************)
(* C13: main's counter advances only when an account was created, so the   *)
(* k-th account ever created has number k (the first has number 1, and     *)
(* there are no gaps) and the counter is the number of accounts plus one.  *)
(***************************************************************************)
C13_NumeracaoSemLacunas ==
    /\ \A k \in Indices : contas[k].numero = k
    /\ numero_conta = Len(contas) + 1

\* What the counter does keep: it is never below the number of accounts plus one, and
\* the k-th account has a number of at least k.
C13_NumeracaoComLacunas ==
    /\ \A k \in Indices : contas[k].numero >= k
    /\ numero_conta >= Len(contas) + 1

(***************************************************************************)
(* C14: the history entry recorded when a transaction is applied through   *)
(* Transacao.registrar or Cliente.realizar_transacao carries the kind, the *)
(* amount and the timestamp of that transaction, the timestamp being the   *)
(* instant at which the transaction object was constructed, however long   *)
(* before its application that was.                                        *)
(***************************************************************************)
\* The entry a transaction object stands for.
EntradaDe(t) == [tipo |-> t.tipo, valor |-> t.valor, data |-> strftime(t.data)]

\* The step applies t to account i and the account accepts it.
AplicaAceita(i, t) == (Registrar(i, t) \/ RealizarTransacao(i, t)) /\ call'.aceito

C14_EntradaDaTransacao ==
    [][ \A i \in Indices, t \in Construidas :
            AplicaAceita(i, t) =>
                /\ Len(contas'[i].historico) = Len(contas[i].historico) + 1
                /\ contas'[i].historico[Len(contas'[i].historico)] = EntradaDe(t) ]_vars

\* The same statement for revision 1 alone, where the transaction records itself.
C14_EntradaDaTransacaoRev1 ==
    [][ \A i \in Indices, t \in Construidas :
            rev = 1 /\ AplicaAceita(i, t) =>
                /\ Len(contas'[i].historico) = Len(contas[i].historico) + 1
                /\ contas'[i].historico[Len(contas'[i].historico)] = EntradaDe(t) ]_vars

\* What both revisions record: the kind and the amount of the transaction, and an
\* instant between its construction and now.
C14_TipoValorEIntervalo ==
    [][ \A i \in Indices, t \in Construidas :
            AplicaAceita(i, t) =>
                LET h == contas'[i].historico IN
                /\ Len(h) = Len(contas[i].historico) + 1
                /\ h[Len(h)].tipo = t.tipo
                /\ h[Len(h)].valor = t.valor
                /\ h[Len(h)].data \in strftime(t.data)..strftime(relogio) ]_vars

(***************************************************************************)
(* C15: a withdrawal that fails, for whichever of LimitExceeded,           *)
(* WithdrawalCapReached, InvalidAmount and InsufficientFunds, leaves the   *)
(* balance, the history and numero_saques as they were; with the amount    *)
(* within the limit and the cap not reached, a withdrawal of more than the *)
(* balance fails with InsufficientFunds and a withdrawal of exactly the    *)
(* balance (a positive amount) succeeds and leaves a balance of 0.         *)
(***************************************************************************)
ErrosDeSaque == {"LimitExceeded", "WithdrawalCapReached", "InvalidAmount", "InsufficientFunds"}

\* The limit and cap guards of ContaCorrente.sacar let the amount through.
PassaGuardas(conta, v) ==
    ~FGt(v, conta.limite) /\ conta.numero_saques < conta.limite_saques

\* The amounts a withdrawal of account i is evaluated for: those of the actions, NaN,
\* the balance itself and one above it.
ValoresEmTornoDoSaldo(i) ==
    ValoresSaqueENaN \cup {contas[i].saldo, FAdd(contas[i].saldo, 1)}

C15_SaldoInteiro ==
    /\ FoiSaque
    /\ call.valor = call.antes.saldo
    /\ call.aceito
    /\ ContaDaChamada.saldo = 0

(***************************************************************************)
(* C16: the history of an account is append-only: over every operation the *)
(* history before is a prefix of the history after; the history changes    *)
(* only by one entry put at its end by a deposit or withdrawal on that     *)
(* account that succeeded, the entry having the kind and the amount of     *)
(* that operation; so the entries stand in the order of application.       *)
(* (Where the code records the operation, it records it so: revision 2 on  *)
(* every path, revision 1 through registrar / realizar_transacao.)         *)
(***************************************************************************)
\* The path of the call is one on which the source appends to the history.
CaminhoQueAnota(c) == rev = 2 \/ c.op \in {"registrar", "realizar_transacao"}

C16_HistoricoSoCresce ==
    [][ \A i \in Indices :
            LET h == contas[i].historico
                h2 == contas'[i].historico
            IN
            /\ Len(h2) >= Len(h)
            /\ SubSeq(h2, 1, Len(h)) = h
            /\ h2 # h =>
                  /\ Len(h2) = Len(h) + 1
                  /\ call'.conta = i
                  /\ call'.aceito
                  /\ call'.tipo \in {"Deposito", "Saque"}
                  /\ h2[Len(h2)].tipo = call'.tipo
                  /\ h2[Len(h2)].valor = call'.valor
            /\ call'.conta = i /\ call'.aceito /\ CaminhoQueAnota(call') => h2 # h ]_vars

\* A withdrawal recorded after a deposit, both still there and in that order.
C16_Witness ==
    /\ FoiSaque
    /\ call.aceito
    /\ Len(ContaDaChamada.historico) >= 2
    /\ Len(ContaDaChamada.historico) = Len(call.antes.historico) + 1
    /\ ContaDaChamada.historico[1].tipo = "Deposito"
    /\ ContaDaChamada.historico[Len(ContaDaChamada.historico)].tipo = "Saque"
    /\ ContaDaChamada.historico[Len(ContaDaChamada.historico)].valor = call.valor

(***************************************************************************)
(* C17: in every reachable state of a ContaCorrente, numero_saques is the  *)
(* number of Saque entries of its history, is not below what it was in the *)
(* state before, and lies in 0..limite_saques, so that the remaining       *)
(* withdrawals shown by __str__ (limite_saques - numero_saques) are never  *)
(* negative.  (Stated of the state after every step; the initial state has *)
(* no withdrawal and an empty history.)                                    *)
(***************************************************************************)
\* The number of Saque entries of a history.
SaquesNoHistorico(h) == Cardinality({k \in 1..Len(h) : h[k].tipo = "Saque"})

C17_SaquesUsados ==
    [][ \A i \in Indices :
            /\ contas'[i].numero_saques = SaquesNoHistorico(contas'[i].historico)
            /\ contas'[i].numero_saques >= contas[i].numero_saques
            /\ contas'[i].numero_saques \in 0..contas'[i].limite_saques
            /\ contas'[i].limite_saques - contas'[i].numero_saques >= 0 ]_vars

\* The same statement for revision 2 alone.
C17_SaquesUsadosRev2 ==
    [][ \A i \in Indices :
            rev = 2 =>
                /\ contas'[i].numero_saques = SaquesNoHistorico(contas'[i].historico)
                /\ contas'[i].numero_saques >= contas[i].numero_saques
                /\ contas'[i].numero_saques \in 0..contas'[i].limite_saques ]_vars

\* What holds in both revisions: the counter never decreases, stays within the cap,
\* and is never below the number of Saque entries.
C17_SaquesUsadosSemHistorico ==
    [][ \A i \in Indices :
            /\ contas'[i].numero_saques >= SaquesNoHistorico(contas'[i].historico)
            /\ contas'[i].numero_saques >= contas[i].numero_saques
            /\ contas'[i].numero_saques \in 0..contas'[i].limite_saques ]_vars

(***************************************************************************)
(* C18: after any sequence of Deposito / Saque transactions applied        *)
(* through Cliente.realizar_transacao to a fresh ContaCorrente, revision 1 *)
(* and revision 2 have the same balance, the same numero_saques, histories *)
(* with the same sequence of (kind, amount) entries, and have accepted and *)
(* refused the same transactions.                                          *)
(***************************************************************************)
\* The (kind, amount) entries of a history, in order.
TipoEValor(h) == [k \in 1..Len(h) |-> <<h[k].tipo, h[k].valor>>]

C18_RevisoesEquivalentes ==
    rev = 0 =>
        /\ contas[1].saldo = contas[2].saldo
        /\ contas[1].numero_saques = contas[2].numero_saques
        /\ TipoEValor(contas[1].historico) = TipoEValor(contas[2].historico)
        /\ aceitos[1] = aceitos[2]
        /\ Len(contas[2].historico) = aceitos[2].n

\* Deposits and withdrawals accepted and withdrawals refused, in both revisions.
C18_Witness ==
    /\ rev = 0
    /\ call.op = "realizar_transacao"
    /\ call.err = "WithdrawalCapReached"
    /\ aceitos[1].nsaq = LimiteSaquesPadrao
    /\ Len(contas[1].historico) = LimiteSaquesPadrao + 1
    /\ contas[1].historico[1].tipo = "Deposito"

\* The two histories differ in their timestamps (C14): a state where they do.
C18_DatasDiferentes ==
    /\ rev = 0
    /\ TipoEValor(contas[1].historico) = TipoEValor(contas[2].historico)
    /\ contas[1].historico # contas[2].historico

(***************************************************************************)
(* C19: after every step each account created by criar_conta stands        *)
(* exactly once in the account list of exactly one client, and that client *)
(* is the account's `cliente`; over every step no account leaves main's    *)
(* list or a client's list, none changes its owner or its number, a        *)
(* request that succeeds adds one account, and a request that fails with   *)
(* ClientNotFound adds no account anywhere.                                *)
(***************************************************************************)
\* The positions of account i in the account list of client k.
PosicoesDaConta(cls, k, i) == {p \in 1..Len(cls[k].contas) : cls[k].contas[p] = i}

\* The clients whose list holds account i.
DonosDaConta(cls, i) == {k \in 1..Len(cls) : PosicoesDaConta(cls, k, i) # {}}

\* Every account stands once in the list of its `cliente` and in no other list, and
\* every list names accounts that exist.
ContasComUmDono ==
    /\ \A i \in Indices :
          /\ DonosDaConta(clientes, i) = {contas[i].cliente}
          /\ Cardinality(PosicoesDaConta(clientes, contas[i].cliente, i)) = 1
    /\ \A k \in 1..Len(clientes) : \A p \in 1..Len(clientes[k].contas) :
          clientes[k].contas[p] \in Indices

\* Over a step nothing is removed or moved, and criar_conta adds what it reports.
ContasFicamOndeEstao ==
    /\ Len(contas') >= Len(contas)
    /\ \A i \in Indices :
          /\ contas'[i].cliente = contas[i].cliente
          /\ contas'[i].numero = contas[i].numero
    /\ Len(clientes') >= Len(clientes)
    /\ \A k \in 1..Len(clientes) :
          /\ clientes'[k].cpf = clientes[k].cpf
          /\ Len(clientes'[k].contas) >= Len(clientes[k].contas)
          /\ SubSeq(clientes'[k].contas, 1, Len(clientes[k].contas)) = clientes[k].contas
    /\ call'.op = "criar_conta" /\ call'.err = "none" =>
          Len(contas') = Len(contas) + 1
    /\ call'.op = "criar_conta" /\ call'.err = "ClientNotFound" =>
          contas' = contas /\ clientes' = clientes

C19_ContaDeUmCliente == []ContasComUmDono /\ [][ContasFicamOndeEstao]_vars

\* Two accounts of two different clients, created around a request that failed.
C19_Witness ==
    /\ Len(contas) = 2
    /\ contas[1].cliente # contas[2].cliente
    /\ DonosDaConta(clientes, 1) = {contas[1].cliente}
    /\ DonosDaConta(clientes, 2) = {contas[2].cliente}
    /\ numero_conta > Len(contas) + 1

(***************************************************************************)
(* C20: in every reachable state of a ContaCorrente a deposit of an amount *)
(* above 0 succeeds, whatever the amount is to limite and however many     *)
(* withdrawals were made; it increases the balance by exactly the amount,  *)
(* appends one Deposito entry with that amount to the history and leaves   *)
(* numero_saques as it was.                                                *)
(***************************************************************************)
\* The last call was a deposit of a positive amount.
FoiDepositoPositivo == FoiDeposito /\ FGt(call.valor, 0)

\* The deposit succeeded and left numero_saques alone.
DepositoAceito == call.aceito /\ ContaDaChamada.numero_saques = call.antes.numero_saques

\* The balance grew by exactly the amount.
DepositoSomado ==
    FEq(FSub(ContaDaChamada.saldo, call.antes.saldo), call.valor)

\* One Deposito entry of the amount was appended.
DepositoAnotado ==
    LET h == ContaDaChamada.historico IN
    /\ Len(h) = Len(call.antes.historico) + 1
    /\ SubSeq(h, 1, Len(h) - 1) = call.antes.historico
    /\ h[Len(h)].tipo = "Deposito"
    /\ h[Len(h)].valor = call.valor

C20_DepositoPositivo ==
    FoiDepositoPositivo => DepositoAceito /\ DepositoSomado /\ DepositoAnotado

\* The same statement for revision 2 and an account whose balance is a number.
C20_DepositoPositivoRev2Finito ==
    FoiDepositoPositivo /\ rev = 2 /\ ~IsNaN(call.antes.saldo) =>
        DepositoAceito /\ DepositoSomado /\ DepositoAnotado

\* What holds in both revisions and for every balance: the deposit succeeds, also
\* above limite and after limite_saques withdrawals, and leaves numero_saques alone.
C20_DepositoPositivoAceito ==
    /\ FoiDepositoPositivo => DepositoAceito
    /\ \A i \in Indices : \A v \in ValoresDeposito :
          FGt(v, 0) => Conta_depositar(rev, contas[i], v, relogio).ret

\* An account with limite_saques withdrawals made, on which a deposit above limite
\* is accepted.
C20_DepositoAposSaques ==
    \E i \in Indices :
        /\ contas[i].numero_saques = contas[i].limite_saques
        /\ Conta_depositar(rev, contas[i], contas[i].limite + 1, relogio).ret

(***************************************************************************)
(* C21: with two withdrawals of one account interleaved between the test   *)
(* `valor > self._saldo` and the decrease of the balance, and no mutual    *)
(* exclusion per account, a state with a negative balance is reachable;    *)
(* when every depositar / sacar runs to completion before another call     *)
(* starts, the balance is >= 0 in every state of every interleaving.       *)
(***************************************************************************)
\* The second half: under mutual exclusion the balance is >= 0.
C21_SaldoComExclusao ==
    exclusao => \A i \in Indices : FGe(contas[i].saldo, 0)

\* The first half: without mutual exclusion, both threads back from a withdrawal that
\* returned True, and the balance below zero.
C21_SaldoNegativo ==
    /\ ~exclusao
    /\ \A t \in Threads :
          /\ threads[t].fase = "ociosa"
          /\ threads[t].op = "sacar"
          /\ threads[t].ret = "True"
    /\ ~IsNaN(contas[1].saldo)
    /\ contas[1].saldo < 0

\* The second half for a balance that is a number: under mutual exclusion the balance
\* is never below zero.
C21_SaldoComExclusaoNuncaNegativo ==
    exclusao => \A i \in Indices : IsNaN(contas[i].saldo) \/ contas[i].saldo >= 0

\* Without the restriction to mutual exclusion the same does not hold.
C21_SaldoNuncaNegativo ==
    \A i \in Indices : IsNaN(contas[i].saldo) \/ contas[i].saldo >= 0

(***************************************************************************)
(* C22: a menu deposit or withdrawal that ends in ClientNotFound (no       *)
(* client is registered under the CPF typed) or in NoAccountForClient      *)
(* changes no account, no client and not the counter; any other is handed  *)
(* to the first account created for that client and changes no other       *)
(* account; so every later account of a client has balance 0, an empty     *)
(* history and no withdrawal counted, in every state.                      *)
(***************************************************************************)
\* The accounts created for client k, and the first of them (0 for none).
ContasDoCliente(k) == {i \in Indices : contas[i].cliente = k}

PrimeiraConta(k) ==
    IF ContasDoCliente(k) = {} THEN 0
    ELSE CHOOSE i \in ContasDoCliente(k) : \A j \in ContasDoCliente(k) : i <= j

\* Every account but the first of its client is as it was created.
ContasPosterioresIntactas ==
    \A i \in Indices :
        i # PrimeiraConta(contas[i].cliente) =>
            /\ contas[i].saldo = 0
            /\ contas[i].historico = << >>
            /\ contas[i].numero_saques = 0

\* The clients registered under the CPF text typed.
RegistadosCom(cpf) == {k \in 1..Len(clientes) : clientes[k].cpf = cpf}

\* What every menu deposit / withdrawal leaves alone, and the account it changes: the
\* one the call was handed to, the first of its client.
MovimentoSoNaPrimeira ==
    /\ clientes' = clientes /\ numero_conta' = numero_conta
    /\ Len(contas') = Len(contas)
    /\ call'.err \in {"ClientNotFound", "NoAccountForClient"} => contas' = contas
    /\ call'.conta = 0 =>
          call'.err \in {"ClientNotFound", "NoAccountForClient", "InvalidValue",
                         "ValueError"}
    /\ \A i \in Indices :
          contas'[i] # contas[i] =>
              i = call'.conta /\ i = PrimeiraConta(contas[i].cliente)
    /\ call'.aceito => contas'[call'.conta] # contas[call'.conta]

\* The same step seen from the CPF and the amount text typed: the client is one
\* registered under that text, and the account the first created for that client.
MovimentoDoClienteTeclado(cpf, txt) ==
    /\ RegistadosCom(cpf) # {}
    /\ call'.err = "NoAccountForClient" =>
          \E k \in RegistadosCom(cpf) : ContasDoCliente(k) = {}
    /\ \A k \in RegistadosCom(cpf) :
          /\ call'.conta \in {0, PrimeiraConta(k)}
          /\ PrimeiraConta(k) # 0 /\ txt.numerico =>
                call'.conta = PrimeiraConta(k) /\ call'.valor = txt.v

MovimentoConforme ==
    call'.op \in {"menu_depositar", "menu_sacar"} =>
        /\ MovimentoSoNaPrimeira
        /\ call'.err = "ClientNotFound" => \E cpf \in CpfsMenu : RegistadosCom(cpf) = {}
        /\ call'.err = "NoAccountForClient" =>
              \E k \in 1..Len(clientes) : ContasDoCliente(k) = {}
        /\ call'.conta # 0 =>
              \A cpf \in CpfsMenu, txt \in TextosValor :
                  (IF call'.op = "menu_depositar" THEN OpcaoDepositar(cpf, txt)
                   ELSE OpcaoSacar(cpf, txt))
                      => MovimentoDoClienteTeclado(cpf, txt)

C22_MovimentoNaPrimeiraConta ==
    []ContasPosterioresIntactas /\ [][MovimentoConforme]_vars

\* A client with two accounts, a deposit then a withdrawal accepted: both on the
\* first account, the second as created.
C22_Witness ==
    /\ Len(contas) = 2
    /\ contas[1].cliente = contas[2].cliente
    /\ call.op = "menu_sacar"
    /\ call.aceito
    /\ call.conta = 1
    /\ Len(contas[1].historico) = 2
    /\ Len(call.antes.historico) = 1
    /\ contas[2].saldo = 0
    /\ contas[2].historico = << >>

\* C23: a deposit or a withdrawal called on one account, accepted or refused, leaves
\* the balance, the history and the withdrawals used of every other account as they
\* were (accounts of the same client included), and leaves the client registry, every
\* client's list of accounts and the account-number counter as they were.
OutrasContasIntactas(i) ==
    /\ Len(contas') = Len(contas)
    /\ \A j \in Indices \ {i} :
          /\ contas'[j].saldo = contas[j].saldo
          /\ contas'[j].historico = contas[j].historico
          /\ contas'[j].numero_saques = contas[j].numero_saques
    /\ clientes' = clientes
    /\ numero_conta' = numero_conta

C23_OutrasContasIntactas ==
    [][ \A i \in Indices :
            \/ \E v \in DepositosDasThreads : DepositarObjeto(i, v)
            \/ \E v \in SaquesDasThreads : SacarObjeto(i, v)
            => OutrasContasIntactas(i) ]_vars

\* Revision 2: a deposit accepted on the second account of a client whose first
\* account already holds a balance and a history entry.
C23_Witness ==
    /\ rev = 2 /\ Len(contas) = 2 /\ contas[1].cliente = contas[2].cliente
    /\ call.op = "depositar" /\ call.conta = 2 /\ call.aceito
    /\ contas[1].saldo = LimitePadrao \div 5 /\ Len(contas[1].historico) = 1
    /\ contas[2].saldo = LimitePadrao \div 5 /\ Len(contas[2].historico) = 1
====
